---- MODULE Spec2Model ----
(***************************************************************************)
(* Model of API_Vercel_Setup/main.py: a FastAPI process with two routes,   *)
(* GET / and POST /api/generate.  The POST handler is a linear pipeline    *)
(* over three external services: the generation service, the background    *)
(* remover and the image host.  The external services are the environment: *)
(* every answer they can give is drawn with \E.                            *)
(***************************************************************************)
EXTENDS Integers, Sequences, FiniteSets, TLC

\* ------------------------------------------------------------------ bounds
MaxReq == 2       \* concurrent POST requests (SpecConc)
MaxParts == 2     \* parts in one answer of the generation service
MaxDim == 402     \* largest width/height drawn in SpecResize

\* ------------------------------------------------------ program constants
PreviewBox == 400     \* thumbnail((400, 400))
HighresW == 3000      \* resize((3000, 3600))
HighresH == 3600

Requests == 1..MaxReq

WelcomeText == "Welcome to the Image Generation API. Use the /api/generate endpoint to create images."

\* ------------------------------------------------------------------ values
\* A PIL image: its pixel size, the generation call and part it came from
\* (request, prompt number, part index), and the size of the pixel grid its
\* data was last resampled from.
Image(size, gen) == [size |-> size, gen |-> gen, from |-> size]

\* Python None where an image is expected.
NoImage == [size |-> <<0, 0>>, gen |-> <<0, 0, 0>>, from |-> <<0, 0>>]

\* None / absent where a URL string is expected; a URL is a non-empty tuple.
NoUrl == <<>>

\* Two image sizes the generation service answers with in Spec and SpecConc:
\* one that fits the preview box and one that does not.
SizeA == <<300, 200>>
SizeB == <<1000, 333>>

\* Parts of a generation answer: inline_data is None (<<>>) for a text part,
\* or the bytes of an image, named by the size they decode to.
TextPart == [inline_data |-> <<>>]
ImagePart(size) == [inline_data |-> size]

PartKinds == {TextPart, ImagePart(SizeA), ImagePart(SizeB)}

RECURSIVE SeqsUpTo(_, _)
SeqsUpTo(S, n) ==
    IF n = 0 THEN {<<>>}
    ELSE LET shorter == SeqsUpTo(S, n - 1)
         IN  shorter \cup {Append(s, x) : s \in shorter, x \in S}

\* Every answer of at most MaxParts parts.
AllResponses == SeqsUpTo(PartKinds, MaxParts)

\* The answers drawn when several requests run concurrently.
FewResponses == {<<TextPart>>, <<ImagePart(SizeB)>>}

\* HTTP responses of POST /api/generate.
NoResponse == [status |-> 0, images |-> <<>>]
ServerError == [status |-> 500, images |-> <<>>]

\* The locals of one run of generate_image_api before it has started.
Blank ==
    [pc |-> "idle", i |-> 0,
     img1 |-> NoImage, img2 |-> NoImage,
     img_no_bg |-> NoImage, preview_img |-> NoImage, highres_img |-> NoImage,
     preview_url |-> NoUrl, response_data |-> <<>>,
     response |-> NoResponse, uuids |-> 0]

VARIABLES
    geminiKey,   \* os.getenv("GEMINI_KEY") is set
    imgbbKey,    \* os.getenv("IMGBB_KEY") is set
    proc,        \* "loading" | "serving" | "crashed": the module's import
    homeResp,    \* last response to GET /
    req,         \* req[r]: the locals and response of request r
    calls,       \* calls[r]: the external calls request r has made, in order
    host         \* the images the image host stores

vars == <<geminiKey, imgbbKey, proc, homeResp, req, calls, host>>

\* ------------------------------------------------------------- pure helpers
Abs(n) == IF n < 0 THEN -n ELSE n
Max(a, b) == IF a >= b THEN a ELSE b
Ceil(a, b) == IF a % b = 0 THEN a \div b ELSE a \div b + 1

\* genai.Client(api_key=...): the client refuses construction without a key.
genai_Client(key) == IF key THEN "client" ELSE "raise"

api_home == [status |-> 200, body |-> WelcomeText]

\* Index of the first part with inline data at or after k, 0 when none.
RECURSIVE FirstInline(_, _)
FirstInline(parts, k) ==
    IF k > Len(parts) THEN 0
    ELSE IF parts[k].inline_data # <<>> THEN k
    ELSE FirstInline(parts, k + 1)

RECURSIVE LastInline(_, _)
LastInline(parts, k) ==
    IF k = 0 THEN 0
    ELSE IF parts[k].inline_data # <<>> THEN k
    ELSE LastInline(parts, k - 1)

generate_image_last(response, r, p) ==
    LET k == LastInline(response, Len(response))
    IN  IF k = 0 THEN NoImage ELSE Image(response[k].inline_data, <<r, p, k>>)

\* generate_image, after the service has answered: the loop over the parts.
generate_image(response, r, p) ==
    LET k == FirstInline(response, 1)
    IN  IF k = 0 THEN NoImage ELSE Image(response[k].inline_data, <<r, p, k>>)

remove_background_lenient(img) ==
    IF img = NoImage THEN [kind |-> "return", value |-> Image(<<1, 1>>, <<0, 0, 0>>)]
    ELSE [kind |-> "return", value |-> Image(img.size, img.gen)]

\* remove_background: pil_image.save on None raises; otherwise the remover
\* gives back an image of the same size.
remove_background(img) ==
    IF img = NoImage THEN [kind |-> "raise", value |-> NoImage]
    ELSE [kind |-> "return", value |-> Image(img.size, img.gen)]

\* round_aspect: of floor f and ceiling c, the one with the smaller key, at
\* least 1.  kf and kc are the keys scaled by a common positive factor.  The
\* keys are floating point in the code: where they are equal as rationals
\* the rounding decides, so both candidates are possible.
round_aspect(f, c, kf, kc) ==
    IF kf < kc THEN {Max(f, 1)}
    ELSE IF kc < kf THEN {Max(c, 1)}
    ELSE {Max(f, 1), Max(c, 1)}

thumbnail_stretch(size) == {<<PreviewBox, PreviewBox>>}

\* Image.thumbnail((400, 400)): the sizes the image may have afterwards.
thumbnail(size) ==
    LET w == size[1]
        h == size[2]
        x == PreviewBox
        y == PreviewBox
    IN  IF x >= w /\ y >= h THEN {size}
        ELSE IF x * h >= y * w
        THEN LET f == (y * w) \div h
                 c == Ceil(y * w, h)
             IN  {<<n, y>> : n \in round_aspect(f, c, Abs(y * w - f * h), Abs(y * w - c * h))}
        ELSE LET f == (x * h) \div w
                 c == Ceil(x * h, w)
             IN  IF f = 0 THEN {<<x, 1>>}
                 ELSE {<<x, n>> : n \in round_aspect(f, c, Abs(w * f - x * h) * c,
                                                     Abs(w * c - x * h) * f)}

\* Image.resize(size): a new image read from img's pixels.
resize(img, size) == [size |-> size, gen |-> img.gen, from |-> img.size]

MakeVariantsAliased(nobg, psize) ==
    LET shrunk == [size |-> psize, gen |-> nobg.gen, from |-> nobg.size]
    IN  [img_no_bg |-> shrunk, preview_img |-> shrunk,
         highres_img |-> resize(shrunk, <<HighresW, HighresH>>)]

\* The preview and the high-resolution image of one variation: each is made
\* from its own copy of img_no_bg; thumbnail changes the copy in place to
\* psize, one of thumbnail(nobg.size).
MakeVariants(nobg, psize) ==
    LET preview_copy == nobg
        highres_copy == nobg
    IN  [img_no_bg |-> nobg,
         preview_img |-> [size |-> psize, gen |-> preview_copy.gen, from |-> preview_copy.size],
         highres_img |-> resize(highres_copy, <<HighresW, HighresH>>)]

upload_to_imgbb_unchecked(reply) == [kind |-> "return", value |-> reply.url]

\* upload_to_imgbb, after the host has answered.
upload_to_imgbb(reply) ==
    IF reply.success THEN [kind |-> "return", value |-> reply.url]
    ELSE [kind |-> "raise", value |-> NoUrl]

entry_swapped(i, preview_url, highres_url) ==
    [variation |-> 3 - i, preview_url |-> preview_url, highres_url |-> highres_url]

\* One record of response_data.
entry(i, preview_url, highres_url) ==
    [variation |-> i, preview_url |-> preview_url, highres_url |-> highres_url]

AppendEntryShared(rq, r, e) ==
    [q \in Requests |-> [rq[q] EXCEPT !.response_data = Append(@, e)]]

\* response_data.append(...) on the list local to request r.
AppendEntry(rq, r, e) == [rq EXCEPT ![r].response_data = Append(@, e)]

FailPartial(rq, r) ==
    [rq EXCEPT ![r] = [Blank EXCEPT !.pc = "failed",
                                    !.response = [status |-> 500,
                                                  images |-> rq[r].response_data]]]

\* An exception leaves generate_image_api: the locals are gone and the
\* framework answers with its default server error.
Fail(rq, r) == [rq EXCEPT ![r] = [Blank EXCEPT !.pc = "failed", !.response = ServerError]]

AfterInterleaved(pc, i) ==
    CASE pc = "read" -> <<"gen1", 0>>
      [] pc = "gen1" -> <<"rembg", 1>>
      [] pc = "gen2" -> <<"rembg", 2>>
      [] pc = "rembg" -> <<"derive", i>>
      [] pc = "derive" -> <<"upprev", i>>
      [] pc = "upprev" -> <<"uphigh", i>>
      [] pc = "uphigh" -> IF i = 1 THEN <<"gen2", 1>> ELSE <<"respond", 2>>
      [] pc = "respond" -> <<"done", i>>

\* The control flow of generate_image_api: the step after step pc of
\* variation i, and the variation it belongs to.
After(pc, i) ==
    CASE pc = "read" -> <<"gen1", 0>>
      [] pc = "gen1" -> <<"gen2", 0>>
      [] pc = "gen2" -> <<"rembg", 1>>
      [] pc = "rembg" -> <<"derive", i>>
      [] pc = "derive" -> <<"upprev", i>>
      [] pc = "upprev" -> <<"uphigh", i>>
      [] pc = "uphigh" -> IF i = 1 THEN <<"rembg", 2>> ELSE <<"respond", 2>>
      [] pc = "respond" -> <<"done", i>>

Goto(rq, r, pc) ==
    [rq EXCEPT ![r].pc = After(pc, rq[r].i)[1], ![r].i = After(pc, rq[r].i)[2]]

\* ------------------------------------------------------------ call records
GenCall(p, ok, resp) ==
    [op |-> "generate", var |-> p, kind |-> "", ok |-> ok, fault |-> ~ok,
     resp |-> resp, url |-> NoUrl]
RemCall(i, ok) ==
    [op |-> "remove", var |-> i, kind |-> "", ok |-> ok, fault |-> ~ok,
     resp |-> <<>>, url |-> NoUrl]
UpCall(i, kind, reply) ==
    [op |-> "upload", var |-> i, kind |-> kind, ok |-> reply.success,
     fault |-> reply.fault, resp |-> <<>>, url |-> reply.url]

Log(r, e) == calls' = [calls EXCEPT ![r] = Append(@, e)]

\* The name upload r sends: f"generated_{uuid.uuid4()}", fresh every call.
UploadName(r, n) == <<"generated", r, n>>

\* What the host may answer to an upload named name: success with the
\* image's URL, non-success, or no answer (a transport error).  Without an
\* API key the host never reports success.
HostReplies(name) ==
    (IF imgbbKey THEN {[success |-> TRUE, fault |-> FALSE, url |-> name]} ELSE {})
    \cup {[success |-> FALSE, fault |-> FALSE, url |-> NoUrl],
          [success |-> FALSE, fault |-> TRUE, url |-> NoUrl]}

\* ------------------------------------------------------------------ actions
\* Module import: app, client and IMGBB_API_KEY are created.
Startup ==
    /\ proc = "loading"
    /\ proc' = IF genai_Client(geminiKey) = "raise" THEN "crashed" ELSE "serving"
    /\ UNCHANGED <<geminiKey, imgbbKey, homeResp, req, calls, host>>

\* A GET / arrives: api_home answers if the application was imported,
\* otherwise the hosting answers with a server error.
GetHome ==
    /\ proc # "loading"
    /\ homeResp' = IF proc = "serving" THEN api_home
                   ELSE [status |-> 500, body |-> ""]
    /\ UNCHANGED <<geminiKey, imgbbKey, proc, req, calls, host>>

\* file.read() and Image.open of the uploaded bytes.
ReadUpload(r) ==
    /\ proc = "serving"
    /\ req[r].pc = "idle"
    /\ \E decodes \in BOOLEAN :
          req' = IF decodes THEN Goto(req, r, "read") ELSE Fail(req, r)
    /\ UNCHANGED <<geminiKey, imgbbKey, proc, homeResp, calls, host>>

\* img1 = generate_image(prompt1, input_image)
Generate1(r, Resps) ==
    /\ req[r].pc = "gen1"
    /\ \/ \E resp \in Resps :
             /\ req' = Goto([req EXCEPT ![r].img1 = generate_image(resp, r, 1)], r, "gen1")
             /\ Log(r, GenCall(1, TRUE, resp))
       \/ /\ req' = Fail(req, r)
          /\ Log(r, GenCall(1, FALSE, <<>>))
    /\ UNCHANGED <<geminiKey, imgbbKey, proc, homeResp, host>>

\* img2 = generate_image(prompt2, input_image)
Generate2(r, Resps) ==
    /\ req[r].pc = "gen2"
    /\ \/ \E resp \in Resps :
             /\ req' = Goto([req EXCEPT ![r].img2 = generate_image(resp, r, 2)], r, "gen2")
             /\ Log(r, GenCall(2, TRUE, resp))
       \/ /\ req' = Fail(req, r)
          /\ Log(r, GenCall(2, FALSE, <<>>))
    /\ UNCHANGED <<geminiKey, imgbbKey, proc, homeResp, host>>

\* img_no_bg = remove_background(img)
RemoveBackground(r) ==
    /\ req[r].pc = "rembg"
    /\ LET img == IF req[r].i = 1 THEN req[r].img1 ELSE req[r].img2
           res == remove_background(img)
       IN  IF res.kind = "raise"
           THEN /\ req' = Fail(req, r)
                /\ UNCHANGED calls
           ELSE \/ /\ req' = Goto([req EXCEPT ![r].img_no_bg = res.value], r, "rembg")
                   /\ Log(r, RemCall(req[r].i, TRUE))
                \/ /\ req' = Fail(req, r)
                   /\ Log(r, RemCall(req[r].i, FALSE))
    /\ UNCHANGED <<geminiKey, imgbbKey, proc, homeResp, host>>

\* preview_img and highres_img are made from img_no_bg.
Derive(r) ==
    /\ req[r].pc = "derive"
    /\ \E psize \in thumbnail(req[r].img_no_bg.size) :
          LET v == MakeVariants(req[r].img_no_bg, psize)
          IN  req' = Goto([req EXCEPT ![r].img_no_bg = v.img_no_bg,
                                      ![r].preview_img = v.preview_img,
                                      ![r].highres_img = v.highres_img], r, "derive")
    /\ UNCHANGED <<geminiKey, imgbbKey, proc, homeResp, calls, host>>

\* preview_url = upload_to_imgbb(preview_img)
UploadPreview(r) ==
    /\ req[r].pc = "upprev"
    /\ \E reply \in HostReplies(UploadName(r, req[r].uuids + 1)) :
          LET res == upload_to_imgbb(reply)
          IN  /\ Log(r, UpCall(req[r].i, "preview", reply))
              /\ host' = IF reply.success
                         THEN host \cup {[url |-> reply.url, image |-> req[r].preview_img,
                                          by |-> r]}
                         ELSE host
              /\ req' = IF reply.fault \/ res.kind = "raise" THEN Fail(req, r)
                        ELSE Goto([req EXCEPT ![r].preview_url = res.value,
                                              ![r].uuids = @ + 1], r, "upprev")
    /\ UNCHANGED <<geminiKey, imgbbKey, proc, homeResp>>

\* highres_url = upload_to_imgbb(highres_img); response_data.append({...})
UploadHighres(r) ==
    /\ req[r].pc = "uphigh"
    /\ \E reply \in HostReplies(UploadName(r, req[r].uuids + 1)) :
          LET res == upload_to_imgbb(reply)
          IN  /\ Log(r, UpCall(req[r].i, "highres", reply))
              /\ host' = IF reply.success
                         THEN host \cup {[url |-> reply.url, image |-> req[r].highres_img,
                                          by |-> r]}
                         ELSE host
              /\ req' = IF reply.fault \/ res.kind = "raise" THEN Fail(req, r)
                        ELSE Goto(AppendEntry([req EXCEPT ![r].uuids = @ + 1], r,
                                              entry(req[r].i, req[r].preview_url, res.value)),
                                  r, "uphigh")
    /\ UNCHANGED <<geminiKey, imgbbKey, proc, homeResp>>

\* return JSONResponse(content={"images": response_data})
Respond(r) ==
    /\ req[r].pc = "respond"
    /\ req' = Goto([req EXCEPT ![r].response =
                        [status |-> 200, images |-> req[r].response_data]], r, "respond")
    /\ UNCHANGED <<geminiKey, imgbbKey, proc, homeResp, calls, host>>

\* ----------------------------------------------------------- specifications
TypeInit ==
    /\ imgbbKey \in BOOLEAN
    /\ homeResp = [status |-> 0, body |-> ""]
    /\ calls = [r \in Requests |-> <<>>]
    /\ host = {}

Init ==
    /\ TypeInit
    /\ geminiKey \in BOOLEAN
    /\ proc = "loading"
    /\ req = [r \in Requests |-> Blank]

\* One POST request against every answer the services can give.
Next ==
    \/ Startup
    \/ GetHome
    \/ ReadUpload(1)
    \/ Generate1(1, AllResponses)
    \/ Generate2(1, AllResponses)
    \/ RemoveBackground(1)
    \/ Derive(1)
    \/ UploadPreview(1)
    \/ UploadHighres(1)
    \/ Respond(1)

Spec == Init /\ [][Next]_vars

\* MaxReq POST requests in any interleaving of their steps.
NextConc ==
    \/ Startup
    \/ \E r \in Requests :
          \/ ReadUpload(r)
          \/ Generate1(r, FewResponses)
          \/ Generate2(r, FewResponses)
          \/ RemoveBackground(r)
          \/ Derive(r)
          \/ UploadPreview(r)
          \/ UploadHighres(r)
          \/ Respond(r)

SpecConc == Init /\ [][NextConc]_vars

\* The last variation of a request from the background remover's output on,
\* for every size of that output.
Dims == 1..MaxDim

InitResize ==
    /\ TypeInit
    /\ geminiKey = TRUE
    /\ proc = "serving"
    /\ \E w \in Dims, h \in Dims :
          req = [r \in Requests |->
                    IF r = 1
                    THEN [Blank EXCEPT !.pc = "derive", !.i = 2,
                                       !.img_no_bg = Image(<<w, h>>, <<1, 2, 1>>)]
                    ELSE Blank]

NextResize ==
    \/ Derive(1)
    \/ UploadPreview(1)
    \/ UploadHighres(1)

SpecResize == InitResize /\ [][NextResize]_vars

\* ------------------------------------------------------------------ claims
IsUpload(e) == e.op = "upload"
Ups(r) == SelectSeq(calls[r], IsUpload)
IsOk(e) == e.ok
OkUps(r) == SelectSeq(Ups(r), IsOk)
HostedBy(r) == {x \in host : x.by = r}
Gens(r, p) == {k \in 1..Len(calls[r]) : calls[r][k].op = "generate" /\ calls[r][k].var = p}
NoInline(parts) == \A k \in 1..Len(parts) : parts[k].inline_data = <<>>
\* The generation service answered request r's prompt p without an image.
GaveNoImage(r, p) == \E k \in Gens(r, p) : calls[r][k].ok /\ NoInline(calls[r][k].resp)
GaveImage(r, p) == \E k \in Gens(r, p) : calls[r][k].ok /\ ~NoInline(calls[r][k].resp)
AllOk(r) == \A k \in 1..Len(calls[r]) : calls[r][k].ok
WellFormed(resp) ==
    /\ resp.status = 200
    /\ Len(resp.images) = 2
    /\ \A k \in 1..2 :
          /\ resp.images[k].variation = k
          /\ resp.images[k].preview_url # NoUrl
          /\ resp.images[k].highres_url # NoUrl

\* C1: a request whose four uploads all reported success (so its image
\* decoded and both generations returned an image) goes on to answer, and
\* its answer has exactly two entries, variation 1 then 2, whose preview_url
\* and highres_url are the non-empty URLs the host returned, in order.
C1_SuccessResponse ==
    \A r \in Requests :
        Len(OkUps(r)) = 4 =>
            /\ req[r].pc \in {"respond", "done"}
            /\ req[r].pc = "done" =>
                  /\ WellFormed(req[r].response)
                  /\ \A k \in 1..2 :
                        /\ req[r].response.images[k].preview_url = OkUps(r)[2 * k - 1].url
                        /\ req[r].response.images[k].highres_url = OkUps(r)[2 * k].url

C1_Witness == req[1].pc = "done" /\ Len(OkUps(1)) = 4 /\ req[1].response.status = 200

\* C2: once the host has reported non-success on any upload of a request,
\* the request has ended in a server error whose response carries no URL.
C2_UploadFailureAborts ==
    \A r \in Requests :
        (\E k \in 1..Len(Ups(r)) : ~Ups(r)[k].ok /\ ~Ups(r)[k].fault) =>
            /\ req[r].pc = "failed"
            /\ req[r].response.status = 500
            /\ req[r].response.images = <<>>

C2_Witness ==
    /\ Len(Ups(1)) = 4
    /\ Len(OkUps(1)) = 3
    /\ ~Ups(1)[4].ok /\ ~Ups(1)[4].fault
    /\ req[1].pc = "failed"

\* Request r has got past the background removal of variation p.
Processed(r, p) ==
    \/ req[r].pc \in {"derive", "upprev", "uphigh"} /\ req[r].i >= p
    \/ req[r].pc \in {"rembg", "gen2"} /\ req[r].i > p
    \/ req[r].pc \in {"respond", "done"}

\* C3: a request whose generation returned no inline image for prompt 1 or
\* prompt 2 never gets past the background removal of that variation and
\* never answers 200; every 200 answer has two entries with non-null URLs.
C3_NoImageFails ==
    \A r \in Requests :
        /\ \A p \in 1..2 :
              GaveNoImage(r, p) => ~Processed(r, p) /\ req[r].response.status # 200
        /\ req[r].response.status \in {0, 200, 500}
        /\ req[r].response.status = 200 => WellFormed(req[r].response)

C3_Witness ==
    /\ GaveImage(1, 1) /\ GaveNoImage(1, 2)
    /\ Len(OkUps(1)) = 2
    /\ AllOk(1)
    /\ req[1].pc = "failed" /\ req[1].response = ServerError

\* C4: every GET / is answered 200 with the welcome string, whatever keys
\* were set when the process started.
C4_HomeAlwaysOk == homeResp.status # 0 => homeResp = api_home

\* The preview of request 1 exists (the derive step has run).
HasPreview == req[1].preview_img # NoImage
SrcW == req[1].img_no_bg.size[1]
SrcH == req[1].img_no_bg.size[2]
PrevW == req[1].preview_img.size[1]
PrevH == req[1].preview_img.size[2]
Fits == SrcW <= PreviewBox /\ SrcH <= PreviewBox

\* C5 as stated: the preview is at most 400 x 400 and has exactly the
\* aspect ratio of the background-removed image.
C5_ExactAspect ==
    HasPreview =>
        /\ PrevW <= PreviewBox /\ PrevH <= PreviewBox
        /\ PrevW * SrcH = PrevH * SrcW

\* C5 amended: the preview is at least 1 x 1 and at most 400 x 400; a source
\* that fits the box keeps its size; otherwise one side is 400 and the other
\* is within one pixel of the proportional value.
C5_PreviewBounded ==
    HasPreview =>
        /\ PrevW >= 1 /\ PrevH >= 1
        /\ PrevW <= PreviewBox /\ PrevH <= PreviewBox
        /\ Fits => PrevW = SrcW /\ PrevH = SrcH
        /\ ~Fits =>
              \/ PrevW = PreviewBox /\ Abs(PrevH * SrcW - PreviewBox * SrcH) < SrcW
              \/ PrevH = PreviewBox /\ Abs(PrevW * SrcH - PreviewBox * SrcW) < SrcH

C5_Witness == HasPreview /\ ~Fits /\ PrevW * SrcH # PrevH * SrcW

\* C6: the high-resolution image made and uploaded for a variation is
\* exactly 3000 x 3600 and was resized from the background-removed image,
\* which making the preview has left at its full size.
C6_HighresFromFullSize ==
    /\ req[1].highres_img # NoImage =>
          /\ req[1].highres_img.size = <<HighresW, HighresH>>
          /\ req[1].highres_img.from = req[1].img_no_bg.size
          /\ req[1].img_no_bg.from = req[1].img_no_bg.size
    /\ \A k \in 1..Len(Ups(1)) :
          Ups(1)[k].kind = "highres" /\ Ups(1)[k].ok =>
              \E x \in host :
                  /\ x.url = Ups(1)[k].url
                  /\ x.image.size = <<HighresW, HighresH>>
                  /\ req[1].pc # "failed" => x.image = req[1].highres_img

C6_Witness ==
    \E x \in host :
        /\ x.image.size = <<HighresW, HighresH>>
        /\ x.image.from[1] > PreviewBox
        /\ x.image.from = req[1].img_no_bg.size

\* The order of the external calls of one request.
CallOrder ==
    << <<"generate", 1, "">>, <<"generate", 2, "">>,
       <<"remove", 1, "">>, <<"upload", 1, "preview">>, <<"upload", 1, "highres">>,
       <<"remove", 2, "">>, <<"upload", 2, "preview">>, <<"upload", 2, "highres">> >>
Sig(e) == <<e.op, e.var, e.kind>>

\* C7: the external calls of a request are a prefix of generation 1,
\* generation 2, then removal, preview upload, high-resolution upload for
\* variation 1 and again for variation 2; a call is made only once all
\* earlier ones have succeeded; the response comes after the last call, and
\* a 200 response after all eight calls.
C7_SequentialCalls ==
    \A r \in Requests :
        /\ Len(calls[r]) <= Len(CallOrder)
        /\ \A k \in 1..Len(calls[r]) :
              /\ Sig(calls[r][k]) = CallOrder[k]
              /\ k < Len(calls[r]) => calls[r][k].ok
        /\ req[r].response # NoResponse => req[r].pc \in {"done", "failed"}
        /\ req[r].response.status = 200 => Len(calls[r]) = Len(CallOrder) /\ AllOk(r)

C7_Witness == req[1].pc = "done" /\ Len(calls[1]) = 8 /\ Cardinality(HostedBy(1)) = 4

ImgOf(r, p) == IF p = 1 THEN req[r].img1 ELSE req[r].img2
\* Request r holds the result of its generation call for prompt p.
HasResult(r, p) ==
    \/ p = 1 /\ req[r].pc \in {"gen2", "rembg", "derive", "upprev", "uphigh", "respond", "done"}
    \/ p = 2 /\ req[r].pc \in {"rembg", "derive", "upprev", "uphigh", "respond", "done"}

\* C8: the generation service is invoked at most once per prompt, exactly
\* once when the caller has returned; the caller's result is the first part
\* with inline data, and None exactly when no part has inline data.
C8_FirstInlineOnce ==
    \A r \in Requests : \A p \in 1..2 :
        /\ Cardinality(Gens(r, p)) <= 1
        /\ HasResult(r, p) =>
              /\ Cardinality(Gens(r, p)) = 1
              /\ \A g \in Gens(r, p) :
                    LET parts == calls[r][g].resp
                        img == ImgOf(r, p)
                    IN  /\ calls[r][g].ok
                        /\ img = NoImage <=> NoInline(parts)
                        /\ img # NoImage =>
                              \E k \in 1..Len(parts) :
                                  /\ parts[k].inline_data # <<>>
                                  /\ \A j \in 1..(k - 1) : parts[j].inline_data = <<>>
                                  /\ img.size = parts[k].inline_data
                                  /\ img.gen = <<r, p, k>>

C8_Witness ==
    /\ req[1].pc = "gen2"
    /\ calls[1][1].resp = <<ImagePart(SizeA), ImagePart(SizeB)>>
    /\ req[1].img1.size = SizeA

\* The response request r's own calls dictate.
OwnResponse(r) ==
    [status |-> 200,
     images |-> [k \in 1..2 |-> entry(k, OkUps(r)[2 * k - 1].url, OkUps(r)[2 * k].url)]]
\* A reason of request r's own for failing.
OwnFailure(r) ==
    \/ calls[r] = <<>>
    \/ ~AllOk(r)
    \/ GaveNoImage(r, 1) \/ GaveNoImage(r, 2)

\* C9: with requests interleaved, every URL of a response was returned by
\* an upload of the same request and names an image generated for that
\* request's prompt of the entry's variation; a request's response and
\* outcome are those its own calls dictate.
C9_Isolation ==
    \A r \in Requests :
        /\ req[r].response.status = 200 =>
              /\ Len(OkUps(r)) = 4
              /\ req[r].response = OwnResponse(r)
              /\ \A k \in 1..Len(req[r].response.images) :
                    \A u \in {req[r].response.images[k].preview_url,
                              req[r].response.images[k].highres_url} :
                        \E x \in host :
                            /\ x.url = u /\ x.by = r
                            /\ x.image.gen[1] = r
                            /\ x.image.gen[2] = req[r].response.images[k].variation
        /\ req[r].pc = "failed" => req[r].response = ServerError /\ OwnFailure(r)
        /\ Len(OkUps(r)) = 4 => req[r].pc \in {"respond", "done"}

C9_Witness ==
    /\ req[1].pc = "failed" /\ Cardinality(HostedBy(1)) = 3
    /\ req[2].pc = "done" /\ req[2].response.status = 200

\* C10: a failed request returns no URL and its successful uploads stay on
\* the host: failing at the k-th upload leaves k-1 images; failing because
\* the second generation returned no image, every call having succeeded,
\* leaves exactly variation 1's preview and high-resolution image.
C10_NoRollback ==
    \A r \in Requests :
        req[r].pc = "failed" =>
            /\ req[r].response.images = <<>>
            /\ Cardinality(HostedBy(r)) = Len(OkUps(r))
            /\ \A k \in 1..Len(OkUps(r)) : \E x \in host : x.url = OkUps(r)[k].url
            /\ (Len(Ups(r)) > 0 /\ ~Ups(r)[Len(Ups(r))].ok) =>
                  Cardinality(HostedBy(r)) = Len(Ups(r)) - 1
            /\ (GaveImage(r, 1) /\ GaveNoImage(r, 2) /\ AllOk(r)) =>
                  /\ Len(OkUps(r)) = 2
                  /\ {x.url : x \in HostedBy(r)} = {Ups(r)[1].url, Ups(r)[2].url}
                  /\ Sig(Ups(r)[1]) = <<"upload", 1, "preview">>
                  /\ Sig(Ups(r)[2]) = <<"upload", 1, "highres">>
                  /\ \A x \in HostedBy(r) : x.image.gen[2] = 1

C10_Witness ==
    /\ req[1].pc = "failed"
    /\ Len(Ups(1)) = 3 /\ ~Ups(1)[3].ok
    /\ Cardinality(HostedBy(1)) = 2

====
